---- MODULE Spec2Model ----
(***************************************************************************)
(* Model of the two scripts of the repository:                             *)
(*   scripts/fully-automated-github-app.py    (the Credential Provisioner) *)
(*   scripts/generate-tool-catalog-markdown.py (the Catalog Renderer)      *)
(* The two programs never interact; each has its own specification         *)
(* (SpecProvisioner, SpecRenderer) over its own variables.                 *)
(***************************************************************************)
EXTENDS Integers, Sequences, FiniteSets, TLC

VARIABLES
    p_pc,         \* provisioner: position in main()
    token,        \* provisioner: the PAT read from standard input
    agent_idx,    \* provisioner: position of the for-loop in AGENTS
    private_key,  \* provisioner: the key generated in the current iteration
    app,          \* provisioner: result of create_github_app_direct
    keys_made,    \* provisioner: number of keys generated so far
    p_out,        \* provisioner: lines printed to standard output
    calls,        \* provisioner: external calls made so far, with outcomes
    r_pc,         \* renderer: position in main()
    argv,         \* renderer: the command line, sys.argv
    file,         \* renderer: what the file named on the command line holds
    catalog_data, \* renderer: the value json.load returned
    markdown,     \* renderer: the document generate_tool_catalog_markdown returned
    r_out,        \* renderer: lines written to standard output
    exit_code     \* renderer: the exit status (-1 while running)

p_vars == <<p_pc, token, agent_idx, private_key, app, keys_made, p_out, calls>>

r_vars == <<r_pc, argv, file, catalog_data, markdown, r_out, exit_code>>

vars == <<p_vars, r_vars>>

(***************************************************************************)
(* Bounds of the model.                                                    *)
(***************************************************************************)
MaxAppId == 2      \* identifiers the registration endpoint may hand out
MaxToken == 2      \* distinct tokens the operator may type
MaxTools == 2      \* longest tool sequence of a server
MaxServers == 2    \* most servers in one mapping (local or remote)
MaxParams == 2     \* most properties in one parameter schema

(***************************************************************************)
(*                        CREDENTIAL PROVISIONER                           *)
(***************************************************************************)

\* The organisation the apps are registered under.
ORG == "5dlabs"

\* The static agent table, in insertion (iteration) order.
AGENTS == << [key |-> "morgan", name |-> "5DLabs-Morgan"],
             [key |-> "rex",    name |-> "5DLabs-Rex"] >>

\* The value None, and a created application as returned by response.json().
None == [ok |-> FALSE, id |-> 0]
CreatedApp(id) == [ok |-> TRUE, id |-> id]

\* What the registration endpoint may answer to requests.post:
\*   created        status 201 with a JSON body carrying the identifier
\*   rejected_json  any other status, JSON error body
\*   rejected_text  any other status, body that is not JSON (a gateway page)
\*   unreachable    requests.post itself raises (no response at all)
RegistrationOutcomes == {"created", "rejected_json", "rejected_text", "unreachable"}

\* Exit statuses of a kubectl subprocess.
ReturnCodes == {0, 1}

Call(c, a, id, k, res) == [call |-> c, agent |-> a, app_id |-> id, key |-> k, result |-> res]
Msg(kind, a) == [kind |-> kind, agent |-> a]

\* if app: in main: None is falsy, a created application (a non-empty
\* JSON object) is truthy.
AppTruthyAlways(a) == TRUE
AppTruthy(a) == a.ok

\* generate_private_key: a fresh key on every call (the n-th key is n).
generate_private_key(n) == n + 1

\* input("Enter your GitHub PAT: ").strip(), after the banner is printed.
ReadToken ==
    /\ p_pc = "start"
    /\ \E t \in 1..MaxToken : token' = t
    /\ p_out' = Append(p_out, Msg("banner", "-"))
    /\ p_pc' = "loop"
    /\ UNCHANGED <<agent_idx, private_key, app, keys_made, calls>>

\* Head of one iteration of for agent_key, agent_config in AGENTS.items():
\* the "Creating" line and generate_private_key().
GenerateKey ==
    /\ p_pc = "loop"
    /\ agent_idx <= Len(AGENTS)
    /\ LET a == AGENTS[agent_idx].key
           k == generate_private_key(keys_made)
       IN /\ private_key' = k
          /\ keys_made' = k
          /\ p_out' = Append(p_out, Msg("creating", a))
          /\ calls' = Append(calls, Call("generate_key", a, 0, k, "ok"))
    /\ p_pc' = "create"
    /\ UNCHANGED <<token, agent_idx, app>>

\* create_github_app_direct(token, ORG, agent_config): one POST; 201 returns
\* the body, anything else prints the status and response.json() and returns
\* None.  response.json() raises when the body is not JSON, and requests.post
\* raises when there is no response; neither is caught anywhere, so the
\* exception leaves main().
CreateApp ==
    /\ p_pc = "create"
    /\ LET a == AGENTS[agent_idx].key IN
       \E outcome \in RegistrationOutcomes, id \in 1..MaxAppId :
          /\ calls' = Append(calls, Call("register", a,
                                 IF outcome = "created" THEN id ELSE 0, 0, outcome))
          /\ CASE outcome = "created" ->
                    /\ app' = CreatedApp(id)
                    /\ p_out' = p_out
                    /\ p_pc' = "created"
               [] outcome = "rejected_json" ->
                    /\ app' = None
                    /\ p_out' = p_out \o << Msg("error_creating_app", a),
                                            Msg("error_body", a) >>
                    /\ p_pc' = "created"
               [] outcome = "rejected_text" ->
                    /\ app' = app
                    /\ p_out' = Append(p_out, Msg("error_creating_app", a))
                    /\ p_pc' = "crashed"
               [] outcome = "unreachable" ->
                    /\ app' = app
                    /\ p_out' = p_out
                    /\ p_pc' = "crashed"
    /\ UNCHANGED <<token, agent_idx, private_key, keys_made>>

\* store_app_credentials(name, app_id, private_key): kubectl create (dry run)
\* piped into kubectl apply, a message for either result of the apply; then
\* kubectl apply of the ExternalSecret, a message only when it succeeds.
\* A failed dry run leaves nothing on the pipe, and the apply of nothing fails.
store_app_credentials(name, app_id, key, rc_create, rc_apply, rc_ext) ==
    [ calls |-> << Call("kubectl_create_secret", name, app_id, key,
                        IF rc_create = 0 THEN "ok" ELSE "failed"),
                   Call("kubectl_apply_secret", name, app_id, key,
                        IF rc_apply = 0 THEN "ok" ELSE "failed"),
                   Call("kubectl_apply_external_secret", name, 0, 0,
                        IF rc_ext = 0 THEN "ok" ELSE "failed") >>,
      out   |-> << IF rc_apply = 0 THEN Msg("stored_credentials", name)
                                   ELSE Msg("failed_to_store_credentials", name) >>
               \o (IF rc_ext = 0 THEN << Msg("created_external_secret", name) >>
                                 ELSE << >>) ]

\* The rest of the loop body: if app: ... else: ..., then time.sleep(2).
AfterCreate ==
    /\ p_pc = "created"
    /\ LET a == AGENTS[agent_idx].key IN
       IF AppTruthy(app)
       THEN \E rc_create \in ReturnCodes, rc_apply \in ReturnCodes, rc_ext \in ReturnCodes :
              /\ (rc_create # 0 => rc_apply # 0)
              /\ LET s == store_app_credentials(a, app.id, private_key,
                                                rc_create, rc_apply, rc_ext)
                 IN /\ calls' = calls \o s.calls
                    /\ p_out' = p_out \o << Msg("created_app", a) >> \o s.out
                                      \o << Msg("setup_complete", a) >>
       ELSE /\ calls' = calls
            /\ p_out' = Append(p_out, Msg("failed_to_create", a))
    /\ p_pc' = "sleep"
    /\ UNCHANGED <<token, agent_idx, private_key, app, keys_made>>

\* time.sleep(2), then the next agent of the table.
Sleep ==
    /\ p_pc = "sleep"
    /\ agent_idx' = agent_idx + 1
    /\ p_pc' = "loop"
    /\ UNCHANGED <<token, private_key, app, keys_made, p_out, calls>>

\* After the loop: the closing lines, and main() returns.
Finish ==
    /\ p_pc = "loop"
    /\ agent_idx > Len(AGENTS)
    /\ p_out' = Append(p_out, Msg("all_apps_created", "-"))
    /\ p_pc' = "done"
    /\ UNCHANGED <<token, agent_idx, private_key, app, keys_made, calls>>


(***************************************************************************)
(*                           CATALOG RENDERER                              *)
(***************************************************************************)

(***************************************************************************)
(* Values json.load returns.  A string is opaque text, except a server     *)
(* name, which is the sequence of its code points because the renderer     *)
(* changes its case.  A dict keeps its keys in insertion order.            *)
(***************************************************************************)
Str(s) == [t |-> "str", s |-> s]
Null == [t |-> "null"]
Num == [t |-> "int"]                      \* the number 7
List(items) == [t |-> "list", v |-> items]
Dict(keys, vals) == [t |-> "dict", k |-> keys, v |-> vals]
EmptyDict == Dict(<< >>, << >>)
EmptyList == List(<< >>)

\* type(x).__name__
TypeName(x) == CASE x.t = "str"  -> "str"
                 [] x.t = "null" -> "NoneType"
                 [] x.t = "int"  -> "int"
                 [] x.t = "list" -> "list"
                 [] x.t = "dict" -> "dict"

\* bool(x)
Truthy(x) == CASE x.t = "str"  -> x.s # ""
               [] x.t = "null" -> FALSE
               [] x.t = "int"  -> TRUE
               [] x.t = "list" -> Len(x.v) > 0
               [] x.t = "dict" -> Len(x.k) > 0

\* str(x), as an f-string formats a value
PyStr(x) == CASE x.t = "str"  -> x.s
              [] x.t = "null" -> "None"
              [] x.t = "int"  -> "7"

\* key in d, d[key] and d.get(key, default) of a dict d
HasKey(d, key) == \E i \in 1..Len(d.k) : d.k[i] = key
Lookup(d, key) == d.v[CHOOSE i \in 1..Len(d.k) : d.k[i] = key]
DictGet(d, key, default) == IF HasKey(d, key) THEN Lookup(d, key) ELSE default

(***************************************************************************)
(* str.lower() and str.title() on code points, for ASCII and U+00DF (the   *)
(* sharp s, a lower-case letter whose title case is the two letters "Ss"). *)
(***************************************************************************)
IsUpperChar(c) == c \in 65..90
IsLowerChar(c) == c \in 97..122 \/ c = 223
IsCasedChar(c) == IsUpperChar(c) \/ IsLowerChar(c)

LowerChar(c) == IF IsUpperChar(c) THEN << c + 32 >> ELSE << c >>
TitleChar(c) == IF c \in 97..122 THEN << c - 32 >>
                ELSE IF c = 223 THEN << 83, 115 >>
                ELSE << c >>

RECURSIVE LowerFrom(_, _)
LowerFrom(s, i) == IF i > Len(s) THEN << >> ELSE LowerChar(s[i]) \o LowerFrom(s, i + 1)

\* s.lower()
Lower(s) == LowerFrom(s, 1)

\* s.title(): a character that follows a cased character is lower-cased,
\* any other character is title-cased.
RECURSIVE TitleFrom(_, _, _)
TitleFrom(s, i, previous_is_cased) ==
    IF i > Len(s) THEN << >>
    ELSE (IF previous_is_cased THEN LowerChar(s[i]) ELSE TitleChar(s[i]))
         \o TitleFrom(s, i + 1, IsCasedChar(s[i]))

Title(s) == TitleFrom(s, 1, FALSE)

(***************************************************************************)
(* The document under construction: the list markdown and the exception  *)
(* raised, if any.  Once an exception is raised nothing more is appended.  *)
(* A line is its format (the literal text of the source, less its back     *)
(* quotes, with the placeholders of the f-string) and the values formatted *)
(* into it: s the opaque texts, c the code-point strings, n the numbers.   *)
(***************************************************************************)
Line(fmt, s, c, n) == [fmt |-> fmt, s |-> s, c |-> c, n |-> n]
Text(fmt) == Line(fmt, << >>, << >>, << >>)
Blank == Text("")

NoError == [exc |-> "", type |-> "", what |-> ""]
AttributeError(x, attr) == [exc |-> "AttributeError", type |-> TypeName(x), what |-> attr]
TypeError(x, what) == [exc |-> "TypeError", type |-> TypeName(x), what |-> what]

Failed(m) == m.err # NoError
Emit(m, lines) == IF Failed(m) THEN m ELSE [m EXCEPT !.lines = @ \o lines]
Raise(m, e) == IF Failed(m) THEN m ELSE [m EXCEPT !.err = e]
EmptyDocument == [lines |-> << >>, err |-> NoError]

(***************************************************************************)
(* generate_tool_documentation                                             *)
(***************************************************************************)

\* param_name in required
InRequired(param_name, required) ==
    CASE required.t = "list" ->
            \E i \in 1..Len(required.v) : required.v[i] = Str(param_name)
      [] required.t = "dict" -> HasKey(required, param_name)

\* The required marker of a parameter bullet.
RequiredMarkerInverted(param_name, required) ==
    IF InRequired(param_name, required) THEN "" ELSE " *(required)*"
RequiredMarker(param_name, required) ==
    IF InRequired(param_name, required) THEN " *(required)*" ELSE ""

\* One iteration of for param_name, param_info in properties.items().
ParameterBullet(m, param_name, param_info, required) ==
    IF param_info.t # "dict" THEN Raise(m, AttributeError(param_info, "get"))
    ELSE IF required.t \in {"null", "int"} THEN Raise(m, TypeError(required, "in"))
    ELSE Emit(m, << Line("{indent}- {param_name} ({param_type}){required_marker}: {param_desc}",
                         << param_name,
                            PyStr(DictGet(param_info, "type", Str("unknown"))),
                            RequiredMarker(param_name, required),
                            PyStr(DictGet(param_info, "description", Str("No description"))) >>,
                         << >>, << >>) >>)

RECURSIVE ParameterBulletsFrom(_, _, _, _)
ParameterBulletsFrom(m, properties, required, i) ==
    IF i > Len(properties.k) \/ Failed(m) THEN m
    ELSE ParameterBulletsFrom(
            ParameterBullet(m, properties.k[i], properties.v[i], required),
            properties, required, i + 1)

\* The loop over properties.items(), in the dict's iteration order.
ParameterBullets(m, properties, required) ==
    ParameterBulletsFrom(m, properties, required, 1)

\* if input_schema and isinstance(input_schema, dict)
SchemaUnchecked(input_schema) == TRUE
SchemaUsable(input_schema) == Truthy(input_schema) /\ input_schema.t = "dict"

\* The "Input Schema (simplified)" part of a tool block.
ParametersSection(m, input_schema) ==
    IF ~SchemaUsable(input_schema) THEN m
    ELSE IF input_schema.t # "dict" THEN Raise(m, AttributeError(input_schema, "get"))
    ELSE LET properties == DictGet(input_schema, "properties", EmptyDict)
             required   == DictGet(input_schema, "required", EmptyList)
         IN IF ~Truthy(properties) THEN m
            ELSE LET m1 == Emit(m, << Text("{indent}"), Text("{indent}**Parameters**:") >>)
                 IN IF properties.t # "dict"
                    THEN Raise(m1, AttributeError(properties, "items"))
                    ELSE ParameterBullets(m1, properties, required)

\* ", ".join(use_cases): the labels, which must all be strings.
UseCasesLine(m, use_cases) ==
    IF ~Truthy(use_cases) THEN m
    ELSE IF use_cases.t # "list" THEN Raise(m, TypeError(use_cases, "join"))
    ELSE IF \E i \in 1..Len(use_cases.v) : use_cases.v[i].t # "str"
         THEN Raise(m, TypeError(
                  use_cases.v[CHOOSE i \in 1..Len(use_cases.v) :
                                 /\ use_cases.v[i].t # "str"
                                 /\ \A j \in 1..(i-1) : use_cases.v[j].t = "str"],
                  "join"))
    ELSE Emit(m, << Line("{indent}**Use Cases**: {use_cases_str}",
                         [ i \in 1..Len(use_cases.v) |-> use_cases.v[i].s ],
                         << >>, << >>) >>)

\* tool.get(key, default): the field of a tool, or its fallback when the
\* tool has no such field.
ToolFieldEmptyDefault(tool, key, default) == DictGet(tool, key, Str(""))
ToolField(tool, key, default) == DictGet(tool, key, default)

generate_tool_documentation(m, tool) ==
    IF Failed(m) THEN m
    ELSE IF tool.t # "dict" THEN Raise(m, AttributeError(tool, "get"))
    ELSE LET tool_name   == ToolField(tool, "name", Str("unknown"))
             description == ToolField(tool, "description", Str("No description available"))
             category    == ToolField(tool, "category", Str("general"))
             use_cases   == ToolField(tool, "use_cases", EmptyList)
             m1 == Emit(m, << Line("{indent}#### {tool_name}", << PyStr(tool_name) >>, << >>, << >>),
                              Text("{indent}"),
                              Line("{indent}**Description**: {description}", << PyStr(description) >>, << >>, << >>),
                              Text("{indent}"),
                              Line("{indent}**Category**: {category}", << PyStr(category) >>, << >>, << >>) >>)
             m2 == UseCasesLine(m1, use_cases)
             m3 == ParametersSection(m2, ToolField(tool, "input_schema", Null))
         IN Emit(m3, << Text("{indent}") >>)

(***************************************************************************)
(* generate_local_server_section, generate_remote_server_section           *)
(***************************************************************************)

RECURSIVE ToolBlocksFrom(_, _, _)
ToolBlocksFrom(m, tools, i) ==
    IF i > Len(tools) \/ Failed(m) THEN m
    ELSE ToolBlocksFrom(generate_tool_documentation(m, tools[i]), tools, i + 1)

\* The order in which for tool in tools visits the tools.
ToolOrderSwapped(tools) ==
    IF Len(tools) < 2 THEN tools
    ELSE << tools[2], tools[1] >> \o SubSeq(tools, 3, Len(tools))
ToolOrder(tools) == tools

\* The "Tools" part of a server subsection: the count-labelled heading and
\* one block per tool, when the tool sequence is not empty.
AvailableTools(m, tools) ==
    IF ~Truthy(tools) THEN m
    ELSE IF tools.t # "list" THEN Raise(m, TypeError(tools, "len"))
    ELSE ToolBlocksFrom(
            Emit(m, << Line("**Available Tools** ({len(tools)} tools):",
                            << >>, << >>, << Len(tools.v) >>),
                       Blank >>),
            ToolOrder(tools.v), 1)

\* The heading and the description of a server subsection.
ServerHeading(m, server_name, server_info) ==
    LET m1 == Emit(m, << Line("### {server_name.title()}", << >>, << Title(server_name) >>, << >>),
                         Blank >>)
    IN IF server_info.t # "dict" THEN Raise(m1, AttributeError(server_info, "get"))
       ELSE Emit(m1, << Line("**Description**: {description}",
                             << PyStr(DictGet(server_info, "description",
                                              Str("No description available"))) >>,
                             << >>, << >>),
                        Blank >>)

\* The fenced "Server Configuration" block of a local server.
ServerConfiguration(m, server_info) ==
    IF ~HasKey(server_info, "command") THEN m
    ELSE LET args == DictGet(server_info, "args", EmptyList)
             m1 == Emit(m, << Text("**Server Configuration**:"),
                              Text("json fence"),
                              Text("{"),
                              Line("  \"command\": \"{server_info.get(command)}\"",
                                   << PyStr(DictGet(server_info, "command", Str(""))) >>,
                                   << >>, << >>) >>)
             m2 == IF ~Truthy(args) THEN m1
                   ELSE IF args.t # "list" THEN Raise(m1, TypeError(args, "iter"))
                   ELSE Emit(m1, << Line("  \"args\": [{args_str}]",
                                         [ i \in 1..Len(args.v) |-> PyStr(args.v[i]) ],
                                         << >>, << >>) >>)
         IN Emit(m2, << Line("  \"workingDirectory\": \"{working_dir}\"",
                             << PyStr(DictGet(server_info, "working_directory",
                                              Str("project_root"))) >>,
                             << >>, << >>),
                        Text("}"),
                        Text("fence"),
                        Blank >>)

generate_local_server_section(m, server_name, server_info) ==
    IF Failed(m) THEN m
    ELSE LET m1 == ServerHeading(m, server_name, server_info)
         IN IF Failed(m1) THEN m1
            ELSE AvailableTools(ServerConfiguration(m1, server_info),
                                DictGet(server_info, "tools", EmptyList))

generate_remote_server_section(m, server_name, server_info) ==
    IF Failed(m) THEN m
    ELSE LET m1 == ServerHeading(m, server_name, server_info)
         IN IF Failed(m1) THEN m1
            ELSE LET m2 == IF HasKey(server_info, "endpoint")
                           THEN Emit(m1, << Line("**Endpoint**: {server_info[endpoint]}",
                                                 << PyStr(Lookup(server_info, "endpoint")) >>,
                                                 << >>, << >>),
                                            Blank >>)
                           ELSE m1
                 IN AvailableTools(m2, DictGet(server_info, "tools", EmptyList))

(***************************************************************************)
(* generate_configuration_guide: forty constant lines.                     *)
(***************************************************************************)
generate_configuration_guide(m) ==
    Emit(m, << Text("## Client Configuration Guide"),
               Blank,
               Text("When generating task-specific client configurations, use this structure:"),
               Blank,
               Text("### Expected client-config.json Structure"),
               Blank,
               Text("json fence"),
               Text("{"),
               Text("  \"remoteTools\": ["),
               Text("    \"kubernetes_listResources\","),
               Text("    \"memory_create_entities\""),
               Text("  ],"),
               Text("  \"localServers\": {"),
               Text("    \"filesystem\": {"),
               Text("      \"command\": \"npx\","),
               Text("      \"args\": [\"-y\", \"@modelcontextprotocol/server-filesystem\", \"/workspace\"],"),
               Text("      \"tools\": [\"read_file\", \"write_file\", \"list_directory\"],"),
               Text("      \"workingDirectory\": \"project_root\""),
               Text("    }"),
               Text("  }"),
               Text("}"),
               Text("fence"),
               Blank,
               Text("### Key Points"),
               Blank,
               Text("- **Remote Tools**: Array of specific tool names (not server names)"),
               Text("- **Local Servers**: Object with complete server configurations"),
               Text("- **Tools Selection**: Only include tools actually needed for the specific task"),
               Text("- **Working Directory**: Use project_root as the standard working directory"),
               Blank,
               Text("### Tool Selection Guidelines"),
               Blank,
               Text("1. **Read Task Requirements**: Understand what the task needs to accomplish"),
               Text("2. **Match Tools to Actions**: Select tools that directly support the required actions"),
               Text("3. **Minimize Tool Set**: Only include tools that are actually needed"),
               Text("4. **Consider Dependencies**: Include tools needed for prerequisite actions"),
               Blank >>)

(***************************************************************************)
(* generate_tool_catalog_markdown                                          *)
(***************************************************************************)

\* One table-of-contents entry of a server: the title-cased name as the
\* display text, the lower-cased name as the anchor.
TocEntry(server_name) ==
    Line("  - [{server_name.title()}](#{server_name.lower()})",
         << >>, << Title(server_name), Lower(server_name) >>, << >>)

\* The nested table-of-contents entries of one mapping (local or remote),
\* when the catalog has it: one entry per key, in the order of .keys().
TocEntries(m, data, section) ==
    IF Failed(m) \/ ~HasKey(data, section) THEN m
    ELSE LET servers == Lookup(data, section)
         IN IF servers.t # "dict" THEN Raise(m, AttributeError(servers, "keys"))
            ELSE Emit(m, [ i \in 1..Len(servers.k) |-> TocEntry(servers.k[i]) ])

RECURSIVE LocalSectionsFrom(_, _, _)
LocalSectionsFrom(m, servers, i) ==
    IF i > Len(servers.k) \/ Failed(m) THEN m
    ELSE LocalSectionsFrom(generate_local_server_section(m, servers.k[i], servers.v[i]),
                           servers, i + 1)

RECURSIVE RemoteSectionsFrom(_, _, _)
RemoteSectionsFrom(m, servers, i) ==
    IF i > Len(servers.k) \/ Failed(m) THEN m
    ELSE RemoteSectionsFrom(generate_remote_server_section(m, servers.k[i], servers.v[i]),
                            servers, i + 1)

\* The subsections of one mapping, when the catalog has it, in the order of
\* .items().
ServerSections(m, data, section) ==
    IF Failed(m) \/ ~HasKey(data, section) THEN m
    ELSE LET servers == Lookup(data, section)
         IN IF servers.t # "dict" THEN Raise(m, AttributeError(servers, "items"))
            ELSE IF section = "local" THEN LocalSectionsFrom(m, servers, 1)
            ELSE RemoteSectionsFrom(m, servers, 1)

\* The result is the document built (the joined lines), or the exception
\* raised together with the lines appended before it.
generate_tool_catalog_markdown(data) ==
    LET m0 == Emit(EmptyDocument,
                   << Text("# MCP Tool Catalog"),
                      Blank,
                      Text("This document provides a comprehensive overview of all available MCP tools,"),
                      Text("both local and remote, for task-specific configuration generation."),
                      Blank >>)
    IN IF data.t # "dict" THEN Raise(m0, AttributeError(data, "get"))
       ELSE LET m1 == Emit(m0, << Line("**Last Updated**: {last_updated}",
                                       << PyStr(DictGet(data, "last_updated", Str("Unknown"))) >>,
                                       << >>, << >>),
                                  Blank,
                                  Text("## Table of Contents"),
                                  Blank,
                                  Text("- [Local Servers](#local-servers)") >>)
                m2 == TocEntries(m1, data, "local")
                m3 == Emit(m2, << Text("- [Remote Tools](#remote-tools)") >>)
                m4 == TocEntries(m3, data, "remote")
                m5 == Emit(m4, << Text("- [Client Configuration Guide](#client-configuration-guide)"),
                                  Blank,
                                  Text("## Local Servers"),
                                  Blank,
                                  Text("Local servers run as separate processes and communicate via stdio transport."),
                                  Text("They require complete command configuration in the client config."),
                                  Blank >>)
                m6 == ServerSections(m5, data, "local")
                m7 == Emit(m6, << Text("## Remote Tools"),
                                  Blank,
                                  Text("Remote tools are accessible through the Toolman proxy server."),
                                  Text("Only tool names are needed in the client config."),
                                  Blank >>)
                m8 == ServerSections(m7, data, "remote")
            IN generate_configuration_guide(m8)

(***************************************************************************)
(* main() of the renderer                                                  *)
(***************************************************************************)

\* The line main() prints for an exception caught by except Exception:
\* str(e) of an AttributeError or TypeError names the type of the value
\* and the attribute or operation it lacks.
ExceptionLineClassOnly(e) == Line("Error: {e}", << e.exc >>, << >>, << >>)
ExceptionLine(e) == Line("Error: {e}", << e.exc, e.type, e.what >>, << >>, << >>)

\* What reaches standard output when rendering raised: the lines appended to
\* markdown before the exception are dropped with the list.
StdoutOnErrorStreaming(partial, e) == partial \o << ExceptionLine(e) >>
StdoutOnError(partial, e) == << ExceptionLine(e) >>

\* if len(sys.argv) != 2: usage, exit 1.
CheckArguments ==
    /\ r_pc = "start"
    /\ IF Len(argv) # 2
       THEN /\ r_out' = Append(r_out, Text("Usage: python3 generate-tool-catalog-markdown.py <tool-catalog.json>"))
            /\ exit_code' = 1
            /\ r_pc' = "exited"
       ELSE /\ r_pc' = "load"
            /\ UNCHANGED <<r_out, exit_code>>
    /\ UNCHANGED <<argv, file, catalog_data, markdown>>

\* open(catalog_file) and json.load(f), with the handlers of their errors.
LoadCatalog ==
    /\ r_pc = "load"
    /\ CASE file.kind = "missing" ->
              /\ r_out' = Append(r_out, Line("Error: File '{catalog_file}' not found",
                                             << argv[2] >>, << >>, << >>))
              /\ exit_code' = 1
              /\ r_pc' = "exited"
              /\ UNCHANGED catalog_data
         [] file.kind = "not_json" ->
              /\ r_out' = Append(r_out, Line("Error: Invalid JSON in '{catalog_file}': {e}",
                                             << argv[2], file.diagnostic >>, << >>, << >>))
              /\ exit_code' = 1
              /\ r_pc' = "exited"
              /\ UNCHANGED catalog_data
         [] file.kind = "unreadable" ->
              /\ r_out' = Append(r_out, Line("Error: {e}", << "OSError", file.diagnostic, "open" >>,
                                             << >>, << >>))
              /\ exit_code' = 1
              /\ r_pc' = "exited"
              /\ UNCHANGED catalog_data
         [] file.kind = "json" ->
              /\ catalog_data' = file.value
              /\ r_pc' = "render"
              /\ UNCHANGED <<r_out, exit_code>>
    /\ UNCHANGED <<argv, file, markdown>>

\* markdown = generate_tool_catalog_markdown(catalog_data), with the handler
\* of whatever it raises.
Render ==
    /\ r_pc = "render"
    /\ LET m == generate_tool_catalog_markdown(catalog_data)
       IN IF Failed(m)
          THEN /\ r_out' = r_out \o StdoutOnError(m.lines, m.err)
               /\ exit_code' = 1
               /\ r_pc' = "exited"
               /\ UNCHANGED markdown
          ELSE /\ markdown' = m.lines
               /\ r_pc' = "print"
               /\ UNCHANGED <<r_out, exit_code>>
    /\ UNCHANGED <<argv, file, catalog_data>>

\* print(markdown), and main() returns: exit status 0.
PrintDocument ==
    /\ r_pc = "print"
    /\ r_out' = r_out \o markdown
    /\ exit_code' = 0
    /\ r_pc' = "exited"
    /\ UNCHANGED <<argv, file, catalog_data, markdown>>

(***************************************************************************)
(* The inputs the renderer is run on.                                      *)
(***************************************************************************)

\* The dict with the keys of the sequence keys that are in present, in the
\* order of keys, each with its value.
Restrict(keys, vals, present) ==
    LET idx == SelectSeq([ i \in 1..Len(keys) |-> i ], LAMBDA i : keys[i] \in present)
    IN Dict([ j \in 1..Len(idx) |-> keys[idx[j]] ], [ j \in 1..Len(idx) |-> vals[idx[j]] ])

\* The sequences of at most n elements of S, repetitions allowed.
SeqsUpTo(S, n) == UNION { [1..k -> S] : k \in 0..n }

\* The sequences of at most n distinct elements of S.
DistinctSeqs(S, n) ==
    { q \in SeqsUpTo(S, n) : \A i, j \in 1..Len(q) : i # j => q[i] # q[j] }

\* Parameter schemas.
ParamNames == {"path", "mode", "depth"}
ParamInfos == { Restrict(<<"type", "description">>,
                         << Str("string"), Str("Where to look") >>, present) :
                   present \in SUBSET {"type", "description"} }
RequiredLists == { List(<< >>), List(<< Str("path") >>), List(<< Str("mode") >>),
                   List(<< Str("mode"), Str("path") >>),
                   List(<< Str("depth"), Str("other") >>) }
PropertyMaps == { Dict(names, [ i \in 1..Len(names) |-> info ]) :
                     names \in DistinctSeqs(ParamNames, MaxParams), info \in ParamInfos }
                \cup { Dict(<<"path", "mode">>,
                            << Dict(<<"type">>, << Str("string") >>), EmptyDict >>) }
Schemas == { Dict(<<"properties", "required">>, << props, req >>) :
                props \in PropertyMaps, req \in RequiredLists }
           \cup { Dict(<<"properties">>, << props >>) : props \in PropertyMaps }
           \cup { Dict(<<"required">>, << req >>) : req \in RequiredLists }
           \cup { EmptyDict }

MixedSchema == Dict(<<"properties", "required">>,
                    << Dict(<<"path", "mode">>,
                            << Dict(<<"type", "description">>,
                                    << Str("string"), Str("Where to look") >>),
                               Dict(<<"type">>, << Str("integer") >>) >>),
                       List(<< Str("path") >>) >>)

\* Tools: every subset of the optional fields, and every schema.
ToolKeys == <<"name", "description", "category", "use_cases", "input_schema">>
FullToolValues == << Str("read_file"), Str("Read a file"), Str("io"),
                     List(<< Str("files"), Str("reading") >>), MixedSchema >>
FieldTools == { Restrict(ToolKeys, FullToolValues, present) :
                   present \in SUBSET { ToolKeys[i] : i \in 1..Len(ToolKeys) } }
SchemaTools == { Dict(<<"name", "input_schema">>, << Str("list_dir"), sch >>) :
                    sch \in Schemas }
                \cup { Dict(<<"name", "use_cases">>, << Str("list_dir"), EmptyList >>) }
FullTool == Restrict(ToolKeys, FullToolValues, { ToolKeys[i] : i \in 1..Len(ToolKeys) })
WriteTool == Dict(<<"name", "category", "input_schema">>,
                  << Str("write_file"), Str("io"),
                     Dict(<<"properties", "required">>,
                          << Dict(<<"mode", "path">>, << EmptyDict, EmptyDict >>),
                             List(<< Str("path") >>) >>) >>)
SampleTools == { FullTool, WriteTool, EmptyDict }

\* Servers: every subset of the optional fields, every short tool sequence
\* of the sample tools, and every tool alone.
ServerKeys == <<"description", "command", "args", "working_directory", "endpoint", "tools">>
FullServerValues == << Str("FS ops"), Str("npx"), List(<< Str("-y"), Str("pkg") >>),
                       Str("/workspace"), Str("http://toolman/mcp"),
                       List(<< FullTool, EmptyDict >>) >>
FieldServers == { Restrict(ServerKeys, FullServerValues, present) :
                     present \in SUBSET { ServerKeys[i] : i \in 1..Len(ServerKeys) } }
                \cup { Dict(<<"command", "args">>, << Str("npx"), EmptyList >>) }
SequenceServers == { Dict(<<"description", "tools">>, << Str("FS ops"), List(tools) >>) :
                        tools \in SeqsUpTo(SampleTools, MaxTools) }
SingleToolServers == { Dict(<<"tools">>, << List(<< tool >>) >>) :
                          tool \in FieldTools \cup SchemaTools }
SampleServers == { Dict(<<"description", "tools">>,
                        << Str("FS ops"), List(<< WriteTool, EmptyDict >>) >>),
                   EmptyDict }

\* Server names: "fs", "K8s" and the sharp s followed by "x".
ServerNames == { << 102, 115 >>, << 75, 56, 115 >>, << 223, 120 >> }

\* Mappings of at most MaxServers distinct server names to sample servers.
ServerMaps == UNION { { Dict(names, servers) : servers \in [1..Len(names) -> SampleServers] } :
                         names \in DistinctSeqs(ServerNames, MaxServers) }

\* Catalogs of the documented shape.
DetailCatalogs ==
    { Dict(<<"last_updated", section>>,
           << Str("2025-01-01"), Dict(<< << 102, 115 >> >>, << server >>) >>) :
         section \in {"local", "remote"},
         server \in FieldServers \cup SequenceServers \cup SingleToolServers }
StructureCatalogs ==
    { Restrict(<<"last_updated", "local", "remote">>,
               << Str("2025-01-01"), local, remote >>, present) :
         local \in ServerMaps, remote \in ServerMaps,
         present \in SUBSET {"last_updated", "local", "remote"} }

\* Inputs that are JSON but not of the documented shape.
BadEntries == { Str("npx"), EmptyList, Null, Num }
MalformedCatalogs ==
    BadEntries
    \cup { Dict(<<section>>, << bad >>) : section \in {"local", "remote"}, bad \in BadEntries }
    \cup { Dict(<<section>>, << Dict(<< name >>, << bad >>) >>) :
              section \in {"local", "remote"}, name \in ServerNames, bad \in BadEntries }
    \cup { Dict(<<"local", "remote">>,
                << Dict(<< << 102, 115 >> >>, << Dict(<<"tools">>, << List(<< FullTool >>) >>) >>),
                   Dict(<< << 75, 56, 115 >>, << 223, 120 >> >>, << EmptyDict, bad >>) >>) :
              bad \in BadEntries }
    \cup { Dict(<<"local">>, << Dict(<< << 102, 115 >> >>, << Dict(<<"tools">>, << tools >>) >>) >>) :
              tools \in { Num,
                          List(<< FullTool, Str("read_file") >>),
                          List(<< Dict(<<"use_cases">>, << List(<< Str("files"), Num >>) >>) >>),
                          List(<< Dict(<<"use_cases">>, << Num >>) >>),
                          List(<< Dict(<<"input_schema">>,
                                       << Dict(<<"properties">>, << List(<< Str("path") >>) >>) >>) >>),
                          List(<< Dict(<<"input_schema">>,
                                       << Dict(<<"properties">>,
                                               << Dict(<<"path">>, << Str("string") >>) >>) >>) >>),
                          List(<< Dict(<<"input_schema">>,
                                       << Dict(<<"properties", "required">>,
                                               << Dict(<<"path">>, << EmptyDict >>), Num >>) >>) >>) } }
    \cup { Dict(<<"local">>, << Dict(<< << 102, 115 >> >>, << Dict(<<"command", "args">>, << Str("npx"), Num >>) >>) >>) }

Catalogs == DetailCatalogs \cup StructureCatalogs \cup MalformedCatalogs

\* What the file named on the command line may hold.
Files == { [kind |-> "json", value |-> c, diagnostic |-> ""] : c \in Catalogs }
         \cup { [kind |-> "missing", value |-> Null, diagnostic |-> ""],
                [kind |-> "unreadable", value |-> Null, diagnostic |-> "Permission denied"],
                [kind |-> "not_json", value |-> Null,
                 diagnostic |-> "Expecting value: line 1 column 1 (char 0)"] }

\* sys.argv: the script name and zero, one or two arguments.
CommandLines == { << "generate-tool-catalog-markdown.py" >>,
                  << "generate-tool-catalog-markdown.py", "catalog.json" >>,
                  << "generate-tool-catalog-markdown.py", "catalog.json", "extra" >> }

RendererIdle ==
    /\ r_pc = "idle"
    /\ argv = << >>
    /\ file = [kind |-> "missing", value |-> Null, diagnostic |-> ""]
    /\ catalog_data = Null
    /\ markdown = << >>
    /\ r_out = << >>
    /\ exit_code = -1

ProvisionerIdle ==
    /\ p_pc = "idle"
    /\ token = 0
    /\ agent_idx = 1
    /\ private_key = 0
    /\ app = None
    /\ keys_made = 0
    /\ p_out = << >>
    /\ calls = << >>

RendererInit ==
    /\ r_pc = "start"
    /\ argv \in CommandLines
    /\ file \in Files
    /\ catalog_data = Null
    /\ markdown = << >>
    /\ r_out = << >>
    /\ exit_code = -1
    /\ ProvisionerIdle

RendererNext ==
    \/ CheckArguments /\ UNCHANGED p_vars
    \/ LoadCatalog /\ UNCHANGED p_vars
    \/ Render /\ UNCHANGED p_vars
    \/ PrintDocument /\ UNCHANGED p_vars

SpecRenderer == RendererInit /\ [][RendererNext]_vars

ProvisionerInit ==
    /\ p_pc = "start"
    /\ token = 0
    /\ agent_idx = 1
    /\ private_key = 0
    /\ app = None
    /\ keys_made = 0
    /\ p_out = << >>
    /\ calls = << >>
    /\ RendererIdle

ProvisionerNext ==
    \/ ReadToken /\ UNCHANGED r_vars
    \/ GenerateKey /\ UNCHANGED r_vars
    \/ CreateApp /\ UNCHANGED r_vars
    \/ AfterCreate /\ UNCHANGED r_vars
    \/ Sleep /\ UNCHANGED r_vars
    \/ Finish /\ UNCHANGED r_vars

SpecProvisioner == ProvisionerInit /\ [][ProvisionerNext]_vars

(***************************************************************************)
(* Properties of the Catalog Renderer.  They read the document back from   *)
(* standard output by the formats of its lines and compare what they find  *)
(* with the catalog in the file.                                           *)
(***************************************************************************)

RendererExited == r_pc = "exited"
RanOnJson == RendererExited /\ Len(argv) = 2 /\ file.kind = "json"
Succeeded == RendererExited /\ exit_code = 0

ServerHeadingFmt == "### {server_name.title()}"
ToolHeadingFmt == "{indent}#### {tool_name}"
TocEntryFmt == "  - [{server_name.title()}](#{server_name.lower()})"
AvailableToolsFmt == "**Available Tools** ({len(tools)} tools):"
BulletFmt == "{indent}- {param_name} ({param_type}){required_marker}: {param_desc}"
CategoryFmt == "{indent}**Category**: {category}"
ToolDescriptionFmt == "{indent}**Description**: {description}"
SectionFmts == {"## Local Servers", "## Remote Tools", "## Client Configuration Guide"}
DiagnosticFmts == {"Usage: python3 generate-tool-catalog-markdown.py <tool-catalog.json>",
                   "Error: File '{catalog_file}' not found",
                   "Error: Invalid JSON in '{catalog_file}': {e}",
                   "Error: {e}"}

\* The positions of the lines of doc whose format is in fmts, in order.
Positions(doc, fmts) ==
    SelectSeq([ i \in 1..Len(doc) |-> i ], LAMBDA i : doc[i].fmt \in fmts)

\* The position of the first line after position i whose format is in fmts
\* (one past the end when there is none).
NextOf(doc, i, fmts) ==
    LET later == { j \in (i+1)..Len(doc) : doc[j].fmt \in fmts }
    IN IF later = {} THEN Len(doc) + 1
       ELSE CHOOSE j \in later : \A k \in later : j <= k

\* The lines of doc strictly between positions i and j.
Between(doc, i, j) == SubSeq(doc, i + 1, j - 1)

FmtLines(doc, fmt) == SelectSeq(doc, LAMBDA l : l.fmt = fmt)

\* The servers of a catalog, local ones first, each mapping in its own order.
ServersIn(c, section) ==
    IF HasKey(c, section) /\ Lookup(c, section).t = "dict"
    THEN LET d == Lookup(c, section)
         IN [ i \in 1..Len(d.k) |-> [name |-> d.k[i], info |-> d.v[i]] ]
    ELSE << >>
InputServers(c) == ServersIn(c, "local") \o ServersIn(c, "remote")

\* The tool sequence of a server entry.
ToolsOf(info) ==
    IF info.t = "dict" /\ HasKey(info, "tools") /\ Lookup(info, "tools").t = "list"
    THEN Lookup(info, "tools").v ELSE << >>

RECURSIVE Flatten(_)
Flatten(seqs) == IF seqs = << >> THEN << >> ELSE Head(seqs) \o Flatten(Tail(seqs))

\* Every tool of the catalog, in the order of servers and of their sequences.
AllTools(c) ==
    LET servers == InputServers(c)
    IN Flatten([ k \in 1..Len(servers) |-> ToolsOf(servers[k].info) ])

\* The text of a field of a tool that is there, fallback otherwise.
FieldOr(d, key, fallback) == IF HasKey(d, key) THEN Lookup(d, key).s ELSE fallback

\* The block of the j-th tool heading of doc: the lines after it up to the
\* next tool heading, server heading or section heading.
ToolBlock(doc, j) ==
    LET at == Positions(doc, {ToolHeadingFmt})[j]
    IN Between(doc, at, NextOf(doc, at, {ToolHeadingFmt, ServerHeadingFmt} \cup SectionFmts))

(***************************************************************************)
(* The documented shape of a catalog (the types of the fields present).    *)
(***************************************************************************)
IsStr(x) == x.t = "str"
IsStrList(x) == x.t = "list" /\ \A i \in 1..Len(x.v) : x.v[i].t = "str"
Optional(d, key, Shape(_)) == HasKey(d, key) => Shape(Lookup(d, key))
ParamShape(p) ==
    /\ p.t = "dict"
    /\ Optional(p, "type", IsStr)
    /\ Optional(p, "description", IsStr)
PropertiesShape(x) == x.t = "dict" /\ \A i \in 1..Len(x.v) : ParamShape(x.v[i])
SchemaShape(x) ==
    /\ x.t = "dict"
    /\ Optional(x, "properties", PropertiesShape)
    /\ Optional(x, "required", IsStrList)
ToolShape(x) ==
    /\ x.t = "dict"
    /\ Optional(x, "name", IsStr)
    /\ Optional(x, "description", IsStr)
    /\ Optional(x, "category", IsStr)
    /\ Optional(x, "use_cases", IsStrList)
    /\ Optional(x, "input_schema", SchemaShape)
ToolsShape(x) == x.t = "list" /\ \A i \in 1..Len(x.v) : ToolShape(x.v[i])
ServerShape(x) ==
    /\ x.t = "dict"
    /\ Optional(x, "description", IsStr)
    /\ Optional(x, "command", IsStr)
    /\ Optional(x, "args", IsStrList)
    /\ Optional(x, "working_directory", IsStr)
    /\ Optional(x, "endpoint", IsStr)
    /\ Optional(x, "tools", ToolsShape)
ServerMapShape(x) == x.t = "dict" /\ \A i \in 1..Len(x.v) : ServerShape(x.v[i])
CatalogShape(c) ==
    /\ c.t = "dict"
    /\ Optional(c, "last_updated", IsStr)
    /\ Optional(c, "local", ServerMapShape)
    /\ Optional(c, "remote", ServerMapShape)

\* C2: the run ends in exactly one of two ways: exit status 0 with the whole
\* document on standard output, or exit status 1 with one diagnostic line and
\* no line of the document; nothing is written before the outcome is known;
\* a wrong argument count, a missing or unreadable file, malformed JSON
\* (whose decode diagnostic is in the message) and an error raised while
\* rendering all end with exit status 1.
C2_AllOrNothing ==
    /\ ~RendererExited => (r_out = << >> /\ exit_code = -1)
    /\ RendererExited =>
          \/ /\ exit_code = 0
             /\ Len(argv) = 2 /\ file.kind = "json"
             /\ Len(r_out) > 2
             /\ r_out[1] = Text("# MCP Tool Catalog")
             /\ r_out[Len(r_out) - 1] =
                   Text("4. **Consider Dependencies**: Include tools needed for prerequisite actions")
             /\ r_out[Len(r_out)] = Blank
             /\ \A i \in 1..Len(r_out) : r_out[i].fmt \notin DiagnosticFmts
          \/ /\ exit_code = 1
             /\ Len(r_out) = 1
             /\ r_out[1].fmt \in DiagnosticFmts
    /\ (RendererExited /\ Len(argv) # 2) => exit_code = 1
    /\ (RendererExited /\ Len(argv) = 2 /\ file.kind \in {"missing", "unreadable"})
          => exit_code = 1
    /\ (RendererExited /\ Len(argv) = 2 /\ file.kind = "not_json")
          => /\ exit_code = 1
             /\ r_out[1].fmt = "Error: Invalid JSON in '{catalog_file}': {e}"
             /\ \E i \in 1..Len(r_out[1].s) : r_out[1].s[i] = file.diagnostic
    /\ (RanOnJson /\ Failed(generate_tool_catalog_markdown(file.value))) => exit_code = 1

\* C2 witness: rendering raised in the second remote server, after the lines
\* of the header and of the servers before it were built, and the run ended
\* with exit status 1.
C2_Witness ==
    /\ RanOnJson
    /\ exit_code = 1
    /\ file.value.t = "dict"
    /\ Len(InputServers(file.value)) = 3
    /\ InputServers(file.value)[3].info.t # "dict"

\* The first server entry of the catalog that is not an object, when the
\* servers before it have the documented shape (0 when there is none).
FirstBadServer(c) ==
    LET servers == InputServers(c)
        bad == { k \in 1..Len(servers) :
                    /\ servers[k].info.t # "dict"
                    /\ \A j \in 1..(k-1) : ServerShape(servers[j].info) }
    IN IF c.t # "dict" \/ bad = {} THEN 0
       ELSE IF HasKey(c, "local") /\ Lookup(c, "local").t # "dict" THEN 0
       ELSE IF HasKey(c, "remote") /\ Lookup(c, "remote").t # "dict" THEN 0
       ELSE CHOOSE k \in bad : TRUE

\* C3 as stated: a top-level value that is not an object is reported by a
\* diagnostic that names the input as invalid, and a server entry that is not
\* an object by a diagnostic that names the key of that server.
C3_StructuralErrorNamesPath ==
    RanOnJson =>
       /\ file.value.t # "dict" =>
             \E i \in 1..Len(r_out) :
                r_out[i].fmt = "Error: Invalid JSON in '{catalog_file}': {e}"
       /\ FirstBadServer(file.value) # 0 =>
             \E i \in 1..Len(r_out) : \E j \in 1..Len(r_out[i].c) :
                r_out[i].c[j] = InputServers(file.value)[FirstBadServer(file.value)].name

\* C3 as amended: a top-level value that is not an object, and the first
\* server entry that is not an object in a catalog well formed up to it, end
\* the run with exit status 1 and the single line "Error: " followed by the
\* text of the AttributeError of the failed .get, which names the type of the
\* offending value and no key, path or file.
C3_GenericAttributeError ==
    RanOnJson =>
       /\ file.value.t # "dict" =>
             /\ exit_code = 1
             /\ r_out = << Line("Error: {e}",
                                << "AttributeError", TypeName(file.value), "get" >>,
                                << >>, << >>) >>
       /\ FirstBadServer(file.value) # 0 =>
             /\ exit_code = 1
             /\ r_out = << Line("Error: {e}",
                                << "AttributeError",
                                   TypeName(InputServers(file.value)[FirstBadServer(file.value)].info),
                                   "get" >>,
                                << >>, << >>) >>

\* C3 witness: a run on a catalog whose second remote server is a list has
\* ended.
C3_Witness ==
    /\ RanOnJson
    /\ FirstBadServer(file.value) = 3
    /\ InputServers(file.value)[3].info = EmptyList
    /\ exit_code = 1

\* C4: on a catalog of the documented shape, whatever optional fields are
\* absent, rendering raises nothing: the run ends with exit status 0 and the
\* document it returned on standard output.
C4_RenderTotal ==
    (RanOnJson /\ CatalogShape(file.value)) =>
       /\ exit_code = 0
       /\ r_out = markdown
       /\ Len(r_out) > 0

\* C4 witness: a catalog with no last_updated, holding a server with no
\* field at all and a tool with no field at all, has been rendered.
C4_Witness ==
    /\ Succeeded
    /\ CatalogShape(file.value)
    /\ ~HasKey(file.value, "last_updated")
    /\ \E k \in 1..Len(InputServers(file.value)) :
          InputServers(file.value)[k].info = EmptyDict
    /\ \E j \in 1..Len(AllTools(file.value)) : AllTools(file.value)[j] = EmptyDict

\* C5: for every server with a non-empty tool sequence, the tool headings
\* between that server's heading and the next server (or section) heading
\* are those of the input sequence, in its order, one per tool; the count of
\* the Available Tools label is the length of the sequence; and no tool
\* heading stands anywhere else in the document.
C5_ToolOrderPreserved ==
    Succeeded =>
       LET servers == InputServers(file.value)
           heads == Positions(r_out, {ServerHeadingFmt})
       IN /\ Len(heads) = Len(servers)
          /\ Len(Positions(r_out, {ToolHeadingFmt})) = Len(AllTools(file.value))
          /\ \A k \in 1..Len(servers) :
                LET tools == ToolsOf(servers[k].info)
                    part == Between(r_out, heads[k],
                                    NextOf(r_out, heads[k], {ServerHeadingFmt} \cup SectionFmts))
                    blocks == FmtLines(part, ToolHeadingFmt)
                    labels == FmtLines(part, AvailableToolsFmt)
                IN Len(tools) > 0 =>
                      /\ Len(blocks) = Len(tools)
                      /\ \A j \in 1..Len(tools) :
                            blocks[j].s = << FieldOr(tools[j], "name", "unknown") >>
                      /\ Len(labels) = 1
                      /\ labels[1].n = << Len(tools) >>

\* C5 witness: a local server with two different tools, followed by another
\* server with tools, has been rendered.
C5_Witness ==
    /\ Succeeded
    /\ Len(InputServers(file.value)) >= 2
    /\ LET tools == ToolsOf(InputServers(file.value)[1].info)
       IN /\ Len(tools) = 2
          /\ FieldOr(tools[1], "name", "unknown") # FieldOr(tools[2], "name", "unknown")
    /\ Len(ToolsOf(InputServers(file.value)[2].info)) > 0

\* The names a schema requires.
RequiredNames(schema) ==
    IF HasKey(schema, "required")
    THEN { Lookup(schema, "required").v[i].s : i \in 1..Len(Lookup(schema, "required").v) }
    ELSE {}

\* The properties of the parameter schema of a tool (none when the tool has
\* no schema, or the schema no properties).
PropertiesOf(tool) ==
    IF HasKey(tool, "input_schema") /\ HasKey(Lookup(tool, "input_schema"), "properties")
    THEN Lookup(Lookup(tool, "input_schema"), "properties").k
    ELSE << >>

\* C7: for every tool whose schema has at least one property, its block has
\* one bullet per property, in the order of the schema, and a bullet carries
\* the required marker exactly when its property is among the names the
\* schema requires.
C7_RequiredMarker ==
    (Succeeded /\ CatalogShape(file.value)) =>
       \A j \in 1..Len(AllTools(file.value)) :
          LET tool == AllTools(file.value)[j]
              names == PropertiesOf(tool)
              bullets == FmtLines(ToolBlock(r_out, j), BulletFmt)
          IN Len(names) > 0 =>
                /\ Len(bullets) = Len(names)
                /\ \A i \in 1..Len(names) :
                      /\ bullets[i].s[1] = names[i]
                      /\ bullets[i].s[3] \in {"", " *(required)*"}
                      /\ bullets[i].s[3] = " *(required)*"
                            <=> names[i] \in RequiredNames(Lookup(tool, "input_schema"))

\* C7 witness: a tool with two parameters, the second of them required and
\* the first not, has been rendered.
C7_Witness ==
    /\ Succeeded
    /\ CatalogShape(file.value)
    /\ \E j \in 1..Len(AllTools(file.value)) :
          LET tool == AllTools(file.value)[j]
          IN /\ PropertiesOf(tool) = <<"mode", "path">>
             /\ RequiredNames(Lookup(tool, "input_schema")) = {"path"}

\* C9: for every tool of every server, the category line of its block reads
\* "general" when the tool has no category and its category otherwise, and
\* the description line reads "No description available" when the tool has
\* no description and its description otherwise.
C9_ToolFallbacks ==
    (Succeeded /\ CatalogShape(file.value)) =>
       \A j \in 1..Len(AllTools(file.value)) :
          LET tool == AllTools(file.value)[j]
              block == ToolBlock(r_out, j)
              category == FmtLines(block, CategoryFmt)
              description == FmtLines(block, ToolDescriptionFmt)
          IN /\ Len(category) = 1
             /\ category[1].s = << FieldOr(tool, "category", "general") >>
             /\ Len(description) = 1
             /\ description[1].s = << FieldOr(tool, "description", "No description available") >>

\* C9 witness: a remote server's tool with a description and no category, and
\* a tool with a category and no description, have been rendered.
C9_Witness ==
    /\ Succeeded
    /\ HasKey(file.value, "remote")
    /\ \E j \in 1..Len(AllTools(file.value)) :
          LET tool == AllTools(file.value)[j]
          IN HasKey(tool, "description") /\ ~HasKey(tool, "category")

\* The fixed order of the sections, and the table of contents: the Local
\* Servers entry, one nested entry per local server in mapping order, the
\* Remote Tools entry, one nested entry per remote server in mapping order,
\* the configuration-guide entry; each nested anchor the lower-cased name.
TocAndSectionOrder ==
    LET c == file.value
        local == ServersIn(c, "local")
        remote == ServersIn(c, "remote")
        at(fmt) == NextOf(r_out, 0, {fmt})
        toc == Between(r_out, at("## Table of Contents"), at("## Local Servers"))
        entry(server) == Line(TocEntryFmt, << >>,
                              << Title(server.name), Lower(server.name) >>, << >>)
    IN /\ r_out[1] = Text("# MCP Tool Catalog")
       /\ 1 < at("**Last Updated**: {last_updated}")
       /\ at("**Last Updated**: {last_updated}") < at("## Table of Contents")
       /\ at("## Table of Contents") < at("## Local Servers")
       /\ at("## Local Servers") < at("## Remote Tools")
       /\ at("## Remote Tools") < at("## Client Configuration Guide")
       /\ at("## Client Configuration Guide") <= Len(r_out)
       /\ toc = << Blank, Text("- [Local Servers](#local-servers)") >>
                \o [ k \in 1..Len(local) |-> entry(local[k]) ]
                \o << Text("- [Remote Tools](#remote-tools)") >>
                \o [ k \in 1..Len(remote) |-> entry(remote[k]) ]
                \o << Text("- [Client Configuration Guide](#client-configuration-guide)"),
                      Blank >>

\* C6: the sections stand in their fixed order, the table of contents has
\* one nested entry per server in mapping order, and the anchor of every
\* nested entry, the lower-cased server name, is the lower-casing of the
\* heading text of that server's subsection.
C6_AnchorsMatchHeadings ==
    Succeeded =>
       /\ TocAndSectionOrder
       /\ LET entries == Positions(r_out, {TocEntryFmt})
              heads == Positions(r_out, {ServerHeadingFmt})
          IN /\ Len(entries) = Len(heads)
             /\ \A k \in 1..Len(entries) :
                   r_out[entries[k]].c[2] = Lower(r_out[heads[k]].c[1])

\* The part of C6 the renderer keeps on every catalog: the section order
\* and the shape of the table of contents.
C6_SectionsAndToc == Succeeded => TocAndSectionOrder

(***************************************************************************)
(* Properties of the Credential Provisioner.                               *)
(***************************************************************************)

AgentOrder == [ i \in 1..Len(AGENTS) |-> AGENTS[i].key ]

IsRegister(c) == c.call = "register"
IsStore(c) == c.call \in {"kubectl_create_secret", "kubectl_apply_secret",
                          "kubectl_apply_external_secret"}

\* The agents a registration was attempted for, in the order of the attempts.
Attempted ==
    LET regs == SelectSeq(calls, IsRegister)
    IN [ i \in 1..Len(regs) |-> regs[i].agent ]

IsPrefix(s, t) == Len(s) <= Len(t) /\ \A i \in 1..Len(s) : s[i] = t[i]

ProvisionerEnded == p_pc \in {"done", "crashed"}

HasMsg(kinds, a) == \E i \in 1..Len(p_out) : p_out[i].kind \in kinds /\ p_out[i].agent = a

FailureKinds == {"error_creating_app", "failed_to_create", "failed_to_store_credentials"}

\* C1: every agent of AGENTS gets exactly one registration attempt, in table
\* order, whatever happened to the agents before it; no agent is attempted
\* twice; and the run reaches its end (the closing lines after the last
\* agent) with every agent attempted.
C1_EveryAgentAttemptedOnce ==
    /\ IsPrefix(Attempted, AgentOrder)
    /\ ProvisionerEnded => (p_pc = "done" /\ Attempted = AgentOrder)

\* C8: every failed external call named by the claim (a registration response
\* that is not a success, a failed secret-creation pathway, a failed
\* external-secret application) leaves a failure message for its agent on
\* standard output.
C8_EveryFailureReported ==
    \A i \in 1..Len(calls) :
       LET c == calls[i] IN
       /\ (IsRegister(c) /\ c.result \in {"rejected_json", "rejected_text"})
             => HasMsg({"error_creating_app", "failed_to_create"}, c.agent)
       /\ (c.call = "kubectl_apply_secret" /\ c.result = "failed")
             => HasMsg({"failed_to_store_credentials"}, c.agent)
       /\ (c.call = "kubectl_apply_external_secret" /\ c.result = "failed")
             => HasMsg(FailureKinds, c.agent)

\* The key generated in the iteration that made call i: the key of the last
\* generate_key call before it.
KeyOfIteration(i) ==
    LET js == { j \in 1..i : calls[j].call = "generate_key" }
    IN IF js = {} THEN 0
       ELSE calls[CHOOSE j \in js : \A k \in js : k <= j].key

\* C10: credentials are stored only for an agent whose registration succeeded
\* in the same iteration: every secret-store or external-secret call follows
\* a successful registration of the same agent, carries that application's
\* identifier and the key generated in that iteration, happens at most once
\* per agent, and never happens for an agent whose registration failed (whose
\* key is then used nowhere).
C10_StoreOnlyAfterCreated ==
    /\ \A i \in 1..Len(calls) :
          IsStore(calls[i]) =>
             \E j \in 1..(i-1) :
                /\ IsRegister(calls[j])
                /\ calls[j].agent = calls[i].agent
                /\ calls[j].result = "created"
                /\ \A k \in (j+1)..(i-1) : IsStore(calls[k])
                /\ calls[i].call # "kubectl_apply_external_secret"
                     => /\ calls[i].app_id = calls[j].app_id
                        /\ calls[i].key = KeyOfIteration(j)
    /\ \A i, j \in 1..Len(calls) :
          (IsStore(calls[i]) /\ calls[i].call = calls[j].call
             /\ calls[i].agent = calls[j].agent) => i = j
    /\ \A j \in 1..Len(calls) :
          (IsRegister(calls[j]) /\ calls[j].result # "created") =>
             \A i \in 1..Len(calls) :
                IsStore(calls[i]) =>
                   /\ calls[i].agent # calls[j].agent
                   /\ calls[i].key # KeyOfIteration(j)

\* C10 witness: the first agent's registration was rejected, the second one's
\* succeeded and its credentials were stored, and the run is over.
C10_Witness ==
    /\ p_pc = "done"
    /\ \E j \in 1..Len(calls) :
          IsRegister(calls[j]) /\ calls[j].agent = "morgan"
             /\ calls[j].result = "rejected_json"
    /\ \E i \in 1..Len(calls) :
          calls[i].call = "kubectl_apply_secret" /\ calls[i].agent = "rex"
             /\ calls[i].result = "ok"

====
